---- MODULE Spec2Model ----
(***************************************************************************)
(* WebRouterCollector of packages/core/src/common/webRouterCollector.ts:   *)
(* the lazily filled route table (routes, routesPriority, isReady), the    *)
(* collection pass (analyze, collectRoute, collectFunctionRoute,           *)
(* checkDuplicateAndPush, sortRouter) and the three asynchronous read      *)
(* operations.                                                             *)
(*                                                                         *)
(* A JavaScript string is a sequence of one-character strings, so that     *)
(* length, includes, split and replace are computed as the code computes   *)
(* them.  url is a string here: RegExp urls are outside the input domain.  *)
(* The fields of RouterInfo that the collector only copies (id, routerName,*)
(* description, summary, request/response metadata, function metadata)     *)
(* are left out: no operation of the class reads them.                     *)
(***************************************************************************)
EXTENDS Integers, Sequences, FiniteSets, TLC

VARIABLES
    baseDir,          \* this.baseDir is truthy (analyze awaits container.ready())
    options,          \* this.options: globalPrefix, includeFunctionRouter
    functionMeta,     \* the functionMeta argument collectFunctionRoute is called with
    controllerModules,\* listModule(CONTROLLER_KEY)
    fnModules,        \* listModule(FUNC_KEY)
    isReady,          \* this.isReady
    routes,           \* this.routes: prefix -> RouterInfo[]
    routesPriority,   \* this.routesPriority
    pc,               \* position of each call of a read operation
    op,               \* the read operation each call invokes
    ret,              \* the value a call's promise resolved with
    err,              \* the error a call's promise rejected with
    analyzeCount,     \* history: number of times analyze was entered
    overlapped,       \* history: a call was issued while another was in flight
    sortInput,        \* the argument of a direct call of the public sortRouter
    sortResult        \* what that call returned

vars == <<baseDir, options, functionMeta, controllerModules, fnModules, isReady,
          routes, routesPriority, pc, op, ret, err, analyzeCount, overlapped,
          sortInput, sortResult>>

config == <<baseDir, options, functionMeta, controllerModules, fnModules>>

sorterCall == <<sortInput, sortResult>>

(***************************************************************************)
(* Bounds.                                                                 *)
(***************************************************************************)
MaxControllers == 2     \* controller classes listModule(CONTROLLER_KEY) returns

MaxCalls == 2           \* calls of read operations on the instance

Calls == 1 .. MaxCalls

(***************************************************************************)
(* Strings.                                                                *)
(***************************************************************************)
undefined == <<"undefined">>      \* the JavaScript value undefined

truthy(s) == s # <<>> /\ s # undefined

Max(S) == CHOOSE m \in S : \A n \in S : n <= m

Min(S) == CHOOSE m \in S : \A n \in S : m <= n

includes(s, ch) == \E i \in 1 .. Len(s) : s[i] = ch

\* s.split(ch) for a one-character separator
split(s, ch) ==
    LET cuts == {i \in 1 .. Len(s) : s[i] = ch}
        n == Cardinality(cuts)
        \* position of the k-th separator, 0 before the first, Len(s)+1 after the last
        cut(k) == IF k = 0 THEN 0
                  ELSE IF k = n + 1 THEN Len(s) + 1
                  ELSE CHOOSE i \in cuts : Cardinality({j \in cuts : j <= i}) = k
    IN  [k \in 1 .. n + 1 |-> SubSeq(s, cut(k - 1) + 1, cut(k) - 1)]

\* \w of a regular expression, over the characters the inputs use
isWordChar(ch) == ch \notin {"/", "*", ":", " ", "."}

\* s.replace(/\/+$/, '')
stripTrailingSlashes(s) ==
    LET keep == {i \in 0 .. Len(s) : \A j \in i + 1 .. Len(s) : s[j] = "/"}
    IN  SubSeq(s, 1, Min(keep))

\* path.posix.join on parts without '.' and '..' segments: the parts joined by
\* '/', runs of '/' collapsed into one
posixJoin(parts) ==
    LET glued[i \in 0 .. Len(parts)] ==
            IF i = 0 THEN <<>>
            ELSE IF i = 1 THEN parts[1]
            ELSE glued[i - 1] \o <<"/">> \o parts[i]
        g == glued[Len(parts)]
        kept == {i \in 1 .. Len(g) : ~(g[i] = "/" /\ i > 1 /\ g[i - 1] = "/")}
        nth(k) == CHOOSE i \in kept : Cardinality({j \in kept : j <= i}) = k
    IN  [k \in 1 .. Cardinality(kept) |-> g[nth(k)]]

\* joinURLPath of ../util: falsy parts dropped, posix join, trailing slashes
\* removed, a leading slash ensured
joinURLPath(a, b) ==
    LET given == SelectSeq(<<a, b>>, truthy)
        p == stripTrailingSlashes(posixJoin(given))
    IN  IF given = <<>> THEN <<>>
        ELSE IF p # <<>> /\ p[1] = "/" THEN p
        ELSE <<"/">> \o p

(***************************************************************************)
(* Errors.                                                                 *)
(***************************************************************************)
NoError == [name |-> "none", message |-> <<>>, existPos |-> <<>>, existPosOther |-> <<>>]

\* new MidwayCommonError(`Router prefix ${prefix} can't set string with *`)
MidwayCommonError(prefix) ==
    [name |-> "MidwayCommonError", message |-> prefix,
     existPos |-> <<>>, existPosOther |-> <<>>]

\* new MidwayDuplicateRouteError(routerUrl, existPos, existPosOther)
MidwayDuplicateRouteError(routerUrl, existPos, existPosOther) ==
    [name |-> "MidwayDuplicateRouteError", message |-> routerUrl,
     existPos |-> existPos, existPosOther |-> existPosOther]

(***************************************************************************)
(* sortRouter (lines 409-476).                                             *)
(***************************************************************************)
\* urlString.replace(/:.+$/, ''): cut at the first ':' that has a character after it
replaceParamTail(s) ==
    LET at == {i \in 1 .. Len(s) - 1 : s[i] = ":"}
    IN  IF at = {} THEN s ELSE SubSeq(s, 1, Min(at) - 1)

\* urlString.includes(':') ? urlString.replace(/:.+$/, '') : ''
paramString(urlString) ==
    IF includes(urlString, ":") THEN replaceParamTail(urlString) ELSE <<>>

\* let category = 2; if (paramString) category = 1; if (includes('*')) category = 0
category(urlString) ==
    IF includes(urlString, "*") THEN 0
    ELSE IF paramString(urlString) # <<>> THEN 1
    ELSE 2

\* the loop over weightArr: one for each fragment that is neither empty nor
\* holds ':' or '*'
weight(urlString) ==
    LET weightArr == split(urlString, "/")
    IN  Cardinality({k \in 1 .. Len(weightArr) :
            /\ weightArr[k] # <<>>
            /\ ~includes(weightArr[k], ":")
            /\ ~includes(weightArr[k], "*")})

\* s.replace(/\**$/, '')
stripTrailingStars(s) ==
    LET keep == {i \in 0 .. Len(s) : \A j \in i + 1 .. Len(s) : s[j] = "*"}
    IN  SubSeq(s, 1, Min(keep))

\* s.replace(/:\w+/, '123'): the first ':' followed by a word character, with
\* the word characters that follow it
replaceFirstParam(s) ==
    LET at == {i \in 1 .. Len(s) - 1 : s[i] = ":" /\ isWordChar(s[i + 1])}
        i == Min(at)
        last == Max({k \in i + 1 .. Len(s) : \A j \in i + 1 .. k : isWordChar(s[j])})
    IN  IF at = {} THEN s
        ELSE SubSeq(s, 1, i - 1) \o <<"1", "2", "3">> \o SubSeq(s, last + 1, Len(s))

pureRouter(urlString) == replaceFirstParam(stripTrailingStars(urlString))

level(urlString) == Len(split(urlString, "/")) - 1

\* the object the map callback returns: {...item, _pureRouter, _level, ...}
withSortKeys(item) ==
    [prefix |-> item.prefix,
     url |-> item.url,
     requestMethod |-> item.requestMethod,
     method |-> item.method,
     handlerName |-> item.handlerName,
     controllerId |-> item.controllerId,
     controllerMiddleware |-> item.controllerMiddleware,
     pureRouter |-> pureRouter(item.url),
     level |-> level(item.url),
     paramString |-> paramString(item.url),
     category |-> category(item.url),
     weight |-> weight(item.url)]

\* compareRouter with the comparison of levels turned round
compareRouter_ShallowFirst(handlerA, handlerB) ==
    IF handlerA.category # handlerB.category
        THEN handlerB.category - handlerA.category
    ELSE IF handlerA.weight # handlerB.weight
        THEN handlerB.weight - handlerA.weight
    ELSE IF handlerA.level = handlerB.level
        THEN IF handlerB.pureRouter = handlerA.pureRouter
                THEN Len(handlerA.url) - Len(handlerB.url)
                ELSE Len(handlerB.pureRouter) - Len(handlerA.pureRouter)
    ELSE handlerA.level - handlerB.level

\* the comparator of lines 454-475
compareRouter(handlerA, handlerB) ==
    IF handlerA.category # handlerB.category
        THEN handlerB.category - handlerA.category
    ELSE IF handlerA.weight # handlerB.weight
        THEN handlerB.weight - handlerA.weight
    ELSE IF handlerA.level = handlerB.level
        THEN IF handlerB.pureRouter = handlerA.pureRouter
                THEN Len(handlerA.url) - Len(handlerB.url)
                ELSE Len(handlerB.pureRouter) - Len(handlerA.pureRouter)
    ELSE handlerB.level - handlerA.level

\* the comparator of lines 174-176
comparePrefix(routeA, routeB) == Len(routeB.prefix) - Len(routeA.prefix)

\* the comparator a call of sort is given: the one of sortRouter or the one of
\* `sort prefix`
compare(by, a, b) ==
    IF by = "router" THEN compareRouter(a, b) ELSE comparePrefix(a, b)

\* Array.prototype.sort is stable: an element goes after the last element
\* already placed that the comparator does not order after it
insertSorted(sorted, x, by) ==
    LET notAfter == {j \in 1 .. Len(sorted) : compare(by, sorted[j], x) <= 0}
        k == IF notAfter = {} THEN 0 ELSE Max(notAfter)
    IN  SubSeq(sorted, 1, k) \o <<x>> \o SubSeq(sorted, k + 1, Len(sorted))

arraySort(s, by) ==
    LET placed[i \in 0 .. Len(s)] ==
            IF i = 0 THEN <<>> ELSE insertSorted(placed[i - 1], s[i], by)
    IN  placed[Len(s)]

sortRouter(urlMatchList) ==
    arraySort([i \in 1 .. Len(urlMatchList) |-> withSortKeys(urlMatchList[i])], "router")

(***************************************************************************)
(* The collection pass.  A pass works on col = [routes, routesPriority,    *)
(* err]: the two fields of the instance it mutates and the error it threw, *)
(* NoError while it has thrown none.  A throw leaves routes and            *)
(* routesPriority as they were at the throw.                               *)
(***************************************************************************)
\* Map.prototype.set
mapSet(m, key, val) ==
    [k \in DOMAIN m \cup {key} |-> IF k = key THEN val ELSE m[k]]

\* checkDuplicateAndPush without its guard
checkDuplicateAndPush_Unguarded(col, prefix, routerInfo) ==
    [col EXCEPT !.routes[prefix] = Append(col.routes[prefix], routerInfo)]

\* checkDuplicateAndPush with a guard that compares the url alone
checkDuplicateAndPush_UrlOnly(col, prefix, routerInfo) ==
    LET prefixList == col.routes[prefix]
        matched == SelectSeq(prefixList, LAMBDA item :
                        truthy(routerInfo.url) /\ item.url = routerInfo.url)
    IN  IF Len(matched) > 0
        THEN [col EXCEPT !.err = MidwayDuplicateRouteError(
                    routerInfo.requestMethod \o <<" ">> \o routerInfo.url,
                    matched[1].handlerName,
                    routerInfo.handlerName)]
        ELSE [col EXCEPT !.routes[prefix] = Append(prefixList, routerInfo)]

\* checkDuplicateAndPush with a guard that does not ask for a method
checkDuplicateAndPush_AnyMethod(col, prefix, routerInfo) ==
    LET prefixList == col.routes[prefix]
        matched == SelectSeq(prefixList, LAMBDA item :
                        /\ truthy(routerInfo.url)
                        /\ item.url = routerInfo.url
                        /\ item.requestMethod = routerInfo.requestMethod)
    IN  IF Len(matched) > 0
        THEN [col EXCEPT !.err = MidwayDuplicateRouteError(
                    routerInfo.requestMethod \o <<" ">> \o routerInfo.url,
                    matched[1].handlerName,
                    routerInfo.handlerName)]
        ELSE [col EXCEPT !.routes[prefix] = Append(prefixList, routerInfo)]

\* checkDuplicateAndPush (lines 506-524)
checkDuplicateAndPush(col, prefix, routerInfo) ==
    LET prefixList == col.routes[prefix]
        matched == SelectSeq(prefixList, LAMBDA item :
                        /\ truthy(routerInfo.url)
                        /\ truthy(routerInfo.requestMethod)
                        /\ item.url = routerInfo.url
                        /\ item.requestMethod = routerInfo.requestMethod)
    IN  IF Len(matched) > 0
        THEN [col EXCEPT !.err = MidwayDuplicateRouteError(
                    routerInfo.requestMethod \o <<" ">> \o routerInfo.url,
                    matched[1].handlerName,
                    routerInfo.handlerName)]
        ELSE [col EXCEPT !.routes[prefix] = Append(prefixList, routerInfo)]

\* one step of a loop of the pass: nothing more happens once it has thrown
pushNext(col, data) ==
    IF col.err # NoError THEN col ELSE checkDuplicateAndPush(col, data.prefix, data)

\* the entries of a list submitted one after the other, up to the first throw
pushAll(col, datas) ==
    LET pushed[i \in 0 .. Len(datas)] ==
            IF i = 0 THEN col ELSE pushNext(pushed[i - 1], datas[i])
    IN  pushed[Len(datas)]

\* lines 210-221 and 223-234: the group and its priority entry, the first time
\* the prefix is seen
setPrefix(col, prefix, middleware, controllerId) ==
    IF prefix \in DOMAIN col.routes THEN col
    ELSE [col EXCEPT
            !.routes = mapSet(@, prefix, <<>>),
            !.routesPriority = Append(@,
                [prefix |-> prefix,
                 priority |-> IF prefix = <<"/">> THEN -999 ELSE 0,
                 middleware |-> middleware,
                 controllerId |-> controllerId])]

\* routerInfoOf with the member's ignoreGlobalPrefix left unread
routerInfoOf_UnderResolvedPrefix(module, webRouter, prefix, ignorePrefix) ==
    [prefix |-> prefix,
     url |-> webRouter.path,
     requestMethod |-> webRouter.requestMethod,
     method |-> webRouter.method,
     handlerName |-> module.controllerId \o <<".">> \o webRouter.method,
     controllerId |-> module.controllerId,
     controllerMiddleware |-> module.middleware]

\* the RouterInfo of lines 253-269
routerInfoOf(module, webRouter, prefix, ignorePrefix) ==
    [prefix |-> IF webRouter.ignoreGlobalPrefix THEN ignorePrefix ELSE prefix,
     url |-> webRouter.path,
     requestMethod |-> webRouter.requestMethod,
     method |-> webRouter.method,
     handlerName |-> module.controllerId \o <<".">> \o webRouter.method,
     controllerId |-> module.controllerId,
     controllerMiddleware |-> module.middleware]

\* controllerOption.prefix || '/'
ignorePrefixOf(module) == IF truthy(module.prefix) THEN module.prefix ELSE <<"/">>

\* the prefix a controller's routes are mounted under (lines 194-202)
resolvedPrefix(module, ignorePrefix) ==
    IF module.ignoreGlobalPrefix
        THEN ignorePrefix
        ELSE joinURLPath(options.globalPrefix, ignorePrefix)

\* collectRoute from line 204 on, with prefix and ignorePrefix computed
collectRouteUnder(col, module, prefix, ignorePrefix) ==
    IF includes(prefix, "*")
    THEN [col EXCEPT !.err = MidwayCommonError(prefix)]
    ELSE pushAll(
            setPrefix(setPrefix(col, prefix, module.middleware, module.controllerId),
                      ignorePrefix, module.middleware, module.controllerId),
            [i \in 1 .. Len(module.webRouterInfo) |->
                routerInfoOf(module, module.webRouterInfo[i], prefix, ignorePrefix)])

\* collectRoute (lines 179-287)
collectRoute(col, module) ==
    collectRouteUnder(col, module,
                      resolvedPrefix(module, ignorePrefixOf(module)),
                      ignorePrefixOf(module))

\* the RouterInfo of a trigger: lines 330-346 for a trigger with a path (a
\* missing method is 'get'), lines 380-403 for another one
functionRouterInfo(module, trigger) ==
    [prefix |-> <<"/">>,
     url |-> IF truthy(trigger.path) THEN trigger.path ELSE <<>>,
     requestMethod |-> IF ~truthy(trigger.path) THEN <<>>
                       ELSE IF trigger.method = undefined THEN <<"g", "e", "t">>
                       ELSE trigger.method,
     method |-> trigger.methodName,
     handlerName |-> module.controllerId \o <<".">> \o trigger.methodName,
     controllerId |-> module.controllerId,
     controllerMiddleware |-> <<>>]

\* the triggers collectFunctionRoute submits an entry for (lines 315, 368):
\* those with a path, and the others when functionMeta is set
submittedTriggers(module, withMeta) ==
    SelectSeq(module.triggers, LAMBDA t : truthy(t.path) \/ withMeta)

\* lines 313-406
functionRouterInfos(module, submitted) ==
    [i \in 1 .. Len(submitted) |-> functionRouterInfo(module, submitted[i])]

\* lines 299-311: the root group, the first time a function class is collected
setRootPrefix(col, controllerId) ==
    IF <<"/">> \in DOMAIN col.routes THEN col
    ELSE [col EXCEPT
            !.routes = mapSet(@, <<"/">>, <<>>),
            !.routesPriority = Append(@,
                [prefix |-> <<"/">>,
                 priority |-> -999,
                 middleware |-> <<>>,
                 controllerId |-> controllerId])]

\* collectFunctionRoute (lines 289-407)
collectFunctionRoute(col, module, withMeta) ==
    pushAll(setRootPrefix(col, module.controllerId),
            functionRouterInfos(module, submittedTriggers(module, withMeta)))

\* one turn of the loop of lines 145-147
collectRouteNext(col, module) ==
    IF col.err # NoError THEN col ELSE collectRoute(col, module)

\* one turn of the loop of lines 151-153
collectFunctionRouteNext(col, module) ==
    IF col.err # NoError THEN col ELSE collectFunctionRoute(col, module, functionMeta)

\* lines 145-147: every controller, up to the first throw
collectControllers(col) ==
    LET ctl[i \in 0 .. Len(controllerModules)] ==
            IF i = 0 THEN col ELSE collectRouteNext(ctl[i - 1], controllerModules[i])
    IN  ctl[Len(controllerModules)]

\* lines 149-154: every function class, up to the first throw
collectFunctions(col) ==
    LET fn[i \in 0 .. Len(fnModules)] ==
            IF i = 0 THEN col ELSE collectFunctionRouteNext(fn[i - 1], fnModules[i])
    IN  IF options.includeFunctionRouter THEN fn[Len(fnModules)] ELSE col

\* lines 143-154
collectAll(col) == collectFunctions(collectControllers(col))

\* filter empty prefix without the routes.delete of line 162
filterEmptyPrefix_KeysKept(col) ==
    [col EXCEPT
        !.routesPriority = SelectSeq(@, LAMBDA item : Len(col.routes[item.prefix]) > 0)]

\* lines 156-165: filter empty prefix
filterEmptyPrefix(col) ==
    [col EXCEPT
        !.routesPriority = SelectSeq(@, LAMBDA item : Len(col.routes[item.prefix]) > 0),
        !.routes = [k \in DOMAIN col.routes \
                        {col.routesPriority[i].prefix : i \in
                            {j \in 1 .. Len(col.routesPriority) :
                                Len(col.routes[col.routesPriority[j].prefix]) = 0}}
                    |-> col.routes[k]]]

\* lines 167-171: sort router
sortRouters(col) ==
    [col EXCEPT !.routes = [k \in DOMAIN col.routes |-> sortRouter(col.routes[k])]]

\* lines 173-176: sort prefix
sortPrefix(col) ==
    [col EXCEPT !.routesPriority = arraySort(@, "prefix")]

\* lines 156-176, which a throw skips
finishAnalyze(collected) ==
    IF collected.err # NoError THEN collected
    ELSE sortPrefix(sortRouters(filterEmptyPrefix(collected)))

\* the synchronous part of analyze (lines 143-176) on the instance's state
analyze(r, rp) ==
    finishAnalyze(collectAll([routes |-> r, routesPriority |-> rp, err |-> NoError]))

\* flatten walking routesPriority from its end
flatten_Reversed(r, rp) ==
    LET routeArr[i \in 0 .. Len(rp)] ==
            IF i = 0 THEN <<>> ELSE r[rp[i].prefix] \o routeArr[i - 1]
    IN  routeArr[Len(rp)]

\* lines 499-503: the groups' entries concatenated in the order of routesPriority
flatten(r, rp) ==
    LET routeArr[i \in 0 .. Len(rp)] ==
            IF i = 0 THEN <<>> ELSE routeArr[i - 1] \o r[rp[i].prefix]
    IN  routeArr[Len(rp)]

(***************************************************************************)
(* Declarations the decorators supply.  A controller class yields its      *)
(* prefix, its router options (middleware, ignoreGlobalPrefix) and its     *)
(* routes; a route always carries a path and a request method             *)
(* (RequestMapping defaults them to '/' and 'get').                        *)
(***************************************************************************)
Route(requestMethod, path, method, ignoreGlobalPrefix) ==
    [requestMethod |-> requestMethod, path |-> path, method |-> method,
     ignoreGlobalPrefix |-> ignoreGlobalPrefix]

Controller(controllerId, prefix, ignoreGlobalPrefix, webRouterInfo) ==
    [controllerId |-> controllerId, prefix |-> prefix,
     middleware |-> <<"mw" \o controllerId[1]>>,
     ignoreGlobalPrefix |-> ignoreGlobalPrefix,
     webRouterInfo |-> webRouterInfo]

get == <<"g", "e", "t">>

GET == <<"G", "E", "T">>

post == <<"p", "o", "s", "t">>

ControllerPool ==
    { \* controller without a prefix: one path under two methods, and once
      \* more under the first method in capitals
      Controller(<<"A">>, << >>, FALSE,
        << Route(get, <<"/", "x">>, <<"l">>, FALSE),
           Route(post, <<"/", "x">>, <<"c">>, FALSE),
           Route(GET, <<"/", "x">>, <<"u">>, FALSE) >>),
      \* a one-character prefix that ignores the global prefix
      Controller(<<"D">>, <<"a">>, TRUE,
        << Route(get, <<"/", ":", "i">>, <<"s">>, FALSE),
           Route(get, <<"/", "x">>, <<"l">>, FALSE) >>),
      \* one route under the resolved prefix, one that ignores the global prefix
      Controller(<<"E">>, <<"/", "a">>, FALSE,
        << Route(get, <<"/", "*">>, <<"w">>, FALSE),
           Route(get, <<"/", "x">>, <<"l">>, TRUE) >>),
      \* a controller without routes
      Controller(<<"F">>, <<"/", "a">>, FALSE, << >>),
      \* a prefix with a wildcard
      Controller(<<"G">>, <<"/", "*">>, FALSE,
        << Route(get, <<"/", "x">>, <<"l">>, FALSE) >>) }

\* sequences of at most n distinct elements of S
DistinctSeqs(S, n) ==
    UNION {{s \in [1 .. k -> S] : \A i, j \in 1 .. k : i # j => s[i] # s[j]} : k \in 0 .. n}

Trigger(methodName, path, method) ==
    [methodName |-> methodName, path |-> path, method |-> method]

\* a function class with a timer trigger and an HTTP trigger whose method is ''
FnT ==
    [controllerId |-> <<"T">>,
     triggers |-> << Trigger(<<"t">>, undefined, undefined),
                     Trigger(<<"e">>, <<"/", "x">>, <<>>) >>]

\* a function class with an HTTP trigger that names no method
FnH ==
    [controllerId |-> <<"H">>,
     triggers |-> << Trigger(<<"h">>, <<"/", "x">>, undefined) >>]

\* includeFunctionRouter, the function classes and functionMeta
FunctionSetups ==
    { [include |-> FALSE, modules |-> << >>, withMeta |-> FALSE],
      [include |-> TRUE, modules |-> <<FnT>>, withMeta |-> FALSE],
      [include |-> TRUE, modules |-> <<FnT, FnH>>, withMeta |-> TRUE] }

GlobalPrefixes == {undefined, <<"/", "v">>}

(***************************************************************************)
(* The instance after construction, and the calls not yet issued.          *)
(***************************************************************************)
NoReturn == [op |-> "none", value |-> << >>]

\* sortRouter has not been called directly
NotCalled == [called |-> FALSE, value |-> << >>]

Init ==
    /\ baseDir \in BOOLEAN
    /\ \E g \in GlobalPrefixes, f \in FunctionSetups :
        /\ options = [globalPrefix |-> g, includeFunctionRouter |-> f.include]
        /\ fnModules = f.modules
        /\ functionMeta = f.withMeta
    /\ controllerModules \in DistinctSeqs(ControllerPool, MaxControllers)
    /\ isReady = FALSE
    /\ routes = << >>
    /\ routesPriority = << >>
    /\ pc = [c \in Calls |-> "idle"]
    /\ op = [c \in Calls |-> "none"]
    /\ ret = [c \in Calls |-> NoReturn]
    /\ err = [c \in Calls |-> NoError]
    /\ analyzeCount = 0
    /\ overlapped = FALSE
    /\ sortInput = << >>
    /\ sortResult = NotCalled

\* what a read operation returns (lines 483, 491, 499-503)
view(o) ==
    [op |-> o,
     value |-> IF o = "getRoutePriorityList" THEN routesPriority
               ELSE IF o = "getRouterTable" THEN routes
               ELSE flatten(routes, routesPriority)]

\* the instance takes the state a pass left; the call that ran it goes on to
\* await the promise, or is rejected with what the pass threw
endAnalyze(c, pass) ==
    /\ routes' = pass.routes
    /\ routesPriority' = pass.routesPriority
    /\ IF pass.err = NoError
       THEN pc' = [pc EXCEPT ![c] = "analyzed"] /\ err' = err
       ELSE pc' = [pc EXCEPT ![c] = "failed"] /\ err' = [err EXCEPT ![c] = pass.err]

\* the synchronous part of analyze runs for call c
runAnalyze(c) == endAnalyze(c, analyze(routes, routesPriority))

\* a read operation up to its first await (lines 478-482, 486-490, 494-498)
invoke(c, o) ==
    /\ pc[c] = "idle"
    /\ \A d \in Calls : d < c => pc[d] # "idle"
    /\ op' = [op EXCEPT ![c] = o]
    /\ overlapped' = (overlapped \/ \E d \in Calls : pc[d] \in {"container", "analyzed"})
    /\ IF isReady
       THEN /\ pc' = [pc EXCEPT ![c] = "done"]
            /\ ret' = [ret EXCEPT ![c] = view(o)]
            /\ UNCHANGED <<routes, routesPriority, err, analyzeCount>>
       ELSE /\ analyzeCount' = analyzeCount + 1
            /\ ret' = ret
            /\ IF baseDir
               THEN /\ pc' = [pc EXCEPT ![c] = "container"]
                    /\ UNCHANGED <<routes, routesPriority, err>>
               ELSE runAnalyze(c)
    /\ UNCHANGED <<config, isReady, sorterCall>>

getRoutePriorityList(c) == invoke(c, "getRoutePriorityList")

getRouterTable(c) == invoke(c, "getRouterTable")

getFlattenRouterTable(c) == invoke(c, "getFlattenRouterTable")

\* analyze after `await container.ready()` (lines 143-176)
containerReady(c) ==
    /\ pc[c] = "container"
    /\ runAnalyze(c)
    /\ UNCHANGED <<config, isReady, op, ret, analyzeCount, overlapped, sorterCall>>

\* resume without the assignment of line 481 (489, 497)
resume_NotMarkedReady(c) ==
    /\ pc[c] = "analyzed"
    /\ pc' = [pc EXCEPT ![c] = "done"]
    /\ ret' = [ret EXCEPT ![c] = view(op[c])]
    /\ UNCHANGED <<config, isReady, routes, routesPriority, op, err, analyzeCount, overlapped,
                   sorterCall>>

\* a read operation after `await this.analyze()` (lines 481-483, 489-491, 497-503)
resume(c) ==
    /\ pc[c] = "analyzed"
    /\ isReady' = TRUE
    /\ pc' = [pc EXCEPT ![c] = "done"]
    /\ ret' = [ret EXCEPT ![c] = view(op[c])]
    /\ UNCHANGED <<config, routes, routesPriority, op, err, analyzeCount, overlapped,
                   sorterCall>>

Next ==
    \E c \in Calls :
        \/ getRoutePriorityList(c)
        \/ getRouterTable(c)
        \/ getFlattenRouterTable(c)
        \/ containerReady(c)
        \/ resume(c)

Spec == Init /\ [][Next]_vars

(***************************************************************************)
(* sortRouter called directly: it is public and reads nothing but its      *)
(* argument.  The argument is a list of entries of one group, as collectRoute *)
(* builds them.                                                            *)
(***************************************************************************)
MaxRoutes == 3          \* entries of the list sortRouter is called with

\* the entry of a member of a controller mounted at '/'
Entry(requestMethod, path, method) ==
    routerInfoOf(Controller(<<"S">>, <<"/">>, FALSE, << >>),
                 Route(requestMethod, path, method, FALSE), <<"/">>, <<"/">>)

RouterInfoPool ==
    { Entry(get, <<"/">>, <<"r">>),
      Entry(get, <<"/", "*">>, <<"w">>),
      \* one literal path under two methods
      Entry(get, <<"/", "a", "/", "b">>, <<"l">>),
      Entry(post, <<"/", "a", "/", "b">>, <<"c">>),
      \* two parameter names of different length
      Entry(get, <<"/", "a", "/", ":", "i">>, <<"p">>),
      Entry(get, <<"/", "a", "/", ":", "i", "j">>, <<"q">>),
      \* a path that begins with a parameter
      Entry(get, <<":", "i", "/", "a", "/", "b">>, <<"h">>),
      \* wildcards: one and two stars, another stem of the same length, and
      \* paths that extend /a by a literal and by a parameter
      Entry(get, <<"/", "a", "/", "*">>, <<"s">>),
      Entry(get, <<"/", "a", "/", "*", "*">>, <<"t">>),
      Entry(get, <<"/", "b", "/", "*">>, <<"u">>),
      Entry(get, <<"/", "a", "/", "b", "/", "*", "*">>, <<"d">>),
      Entry(get, <<"/", "a", "/", ":", "i", "/", "*">>, <<"e">>) }

SorterInit ==
    /\ baseDir = FALSE
    /\ options = [globalPrefix |-> undefined, includeFunctionRouter |-> FALSE]
    /\ fnModules = << >>
    /\ functionMeta = FALSE
    /\ controllerModules = << >>
    /\ isReady = FALSE
    /\ routes = << >>
    /\ routesPriority = << >>
    /\ pc = [c \in Calls |-> "idle"]
    /\ op = [c \in Calls |-> "none"]
    /\ ret = [c \in Calls |-> NoReturn]
    /\ err = [c \in Calls |-> NoError]
    /\ analyzeCount = 0
    /\ overlapped = FALSE
    /\ sortInput \in DistinctSeqs(RouterInfoPool, MaxRoutes)
    /\ sortResult = NotCalled

\* collector.sortRouter(sortInput) (lines 409-476)
callSortRouter ==
    /\ ~sortResult.called
    /\ sortResult' = [called |-> TRUE, value |-> sortRouter(sortInput)]
    /\ UNCHANGED <<config, isReady, routes, routesPriority, pc, op, ret, err,
                   analyzeCount, overlapped, sortInput>>

SorterNext == callSortRouter

SorterSpec == SorterInit /\ [][SorterNext]_vars

(***************************************************************************)
(* Vocabulary of the properties.                                           *)
(***************************************************************************)
InFlight(c) == pc[c] \in {"container", "analyzed"}

Done(c, o) == pc[c] = "done" /\ op[c] = o

Failed(c) == pc[c] = "failed"

\* the entries a pass submits, in the order it submits them when nothing throws
DeclaredOf(module) ==
    [i \in 1 .. Len(module.webRouterInfo) |->
        routerInfoOf(module, module.webRouterInfo[i],
                     resolvedPrefix(module, ignorePrefixOf(module)),
                     ignorePrefixOf(module))]

DeclaredEntries ==
    LET ctl[i \in 0 .. Len(controllerModules)] ==
            IF i = 0 THEN << >> ELSE ctl[i - 1] \o DeclaredOf(controllerModules[i])
        fn[i \in 0 .. Len(fnModules)] ==
            IF i = 0 THEN << >>
            ELSE fn[i - 1] \o functionRouterInfos(fnModules[i],
                                submittedTriggers(fnModules[i], functionMeta))
    IN  ctl[Len(controllerModules)] \o
        (IF options.includeFunctionRouter THEN fn[Len(fnModules)] ELSE << >>)

\* two entries the duplicate guard is to keep apart
SameRoute(a, b) ==
    a.url = b.url /\ a.requestMethod = b.requestMethod /\ a.requestMethod # << >>

InvalidPrefixDeclared ==
    \E i \in 1 .. Len(controllerModules) :
        includes(resolvedPrefix(controllerModules[i], ignorePrefixOf(controllerModules[i])), "*")

DuplicateIn(entries) ==
    \E i, j \in 1 .. Len(entries) :
        /\ i < j
        /\ entries[i].prefix = entries[j].prefix
        /\ SameRoute(entries[i], entries[j])

\* a request method in small letters, over the letters the declarations use
LowerChars == [G |-> "g", E |-> "e", T |-> "t"]

toLowerCase(s) ==
    [i \in 1 .. Len(s) |-> IF s[i] \in DOMAIN LowerChars THEN LowerChars[s[i]] ELSE s[i]]

(***************************************************************************)
(* C1.  A read operation issued while the pass of another call is in       *)
(* flight does not enter analyze again: it awaits the pass in flight.      *)
(***************************************************************************)
C1_ConcurrentCallersShareThePass ==
    [][\A c \in Calls :
        (pc[c] = "idle" /\ pc'[c] # "idle" /\ \E d \in Calls : InFlight(d))
            => analyzeCount' = analyzeCount]_vars

(***************************************************************************)
(* C2.  When every call completes before the next is issued and the first  *)
(* pass succeeds, analyze runs exactly once: the instance holds what one   *)
(* pass over the declarations leaves, and every completed call returned    *)
(* its view of that state.                                                 *)
(***************************************************************************)
HoldsPass(pass) == routes = pass.routes /\ routesPriority = pass.routesPriority

C2_SequentialCallsRunOnePass ==
    (~overlapped /\ pc[1] \in {"analyzed", "done"}) =>
        /\ analyzeCount = 1
        /\ HoldsPass(analyze(<< >>, << >>))
        /\ \A c \in Calls : pc[c] = "done" => ret[c] = view(op[c])

C2_Witness ==
    /\ ~overlapped
    /\ \A c \in Calls : pc[c] = "done"
    /\ analyzeCount = 1
    /\ op[1] # op[2]
    /\ Len(routesPriority) >= 2

(***************************************************************************)
(* C3.  Once every pass so far has aborted, the instance holds no group    *)
(* and no entry and is not ready, and every aborted call reports the same  *)
(* error.                                                                  *)
(***************************************************************************)
C3_AbortedPassLeavesNothing ==
    ((\E c \in Calls : Failed(c)) /\ (\A c \in Calls : pc[c] \in {"idle", "failed"})) =>
        /\ routes = << >>
        /\ routesPriority = << >>
        /\ ~isReady
        /\ \A c, d \in Calls : (Failed(c) /\ Failed(d)) => err[c] = err[d]

(***************************************************************************)
(* C4.  In every state, no group holds two entries with the same url and   *)
(* the same non-empty request method.                                      *)
(***************************************************************************)
C4_NoDuplicateInGroup ==
    \A k \in DOMAIN routes :
        \A i, j \in 1 .. Len(routes[k]) :
            i # j => ~SameRoute(routes[k][i], routes[k][j])

C4_Witness ==
    \E c \in Calls :
        /\ Failed(c)
        /\ err[c].name = "MidwayDuplicateRouteError"
        /\ analyzeCount = 1
        /\ \E k \in DOMAIN routes : Len(routes[k]) >= 2

(***************************************************************************)
(* C5.  A Duplicate Route error names a declared entry that was rejected   *)
(* and an entry held by the group the rejected one goes to, with the same  *)
(* url and the same non-empty method; it carries that method and url, the  *)
(* handler registered and the handler rejected.  Declarations with such a  *)
(* pair make every pass abort; over declarations without one, and without  *)
(* a wildcard prefix, the pass that runs first does not abort.             *)
(***************************************************************************)
\* error e names the rejection of declared entry d by an entry its group holds
Rejects(e, d) ==
    /\ d.prefix \in DOMAIN routes
    /\ e.message = d.requestMethod \o <<" ">> \o d.url
    /\ e.existPosOther = d.handlerName
    /\ \E j \in 1 .. Len(routes[d.prefix]) :
        /\ SameRoute(routes[d.prefix][j], d)
        /\ e.existPos = routes[d.prefix][j].handlerName

RejectsOneOf(e, entries) == \E i \in 1 .. Len(entries) : Rejects(e, entries[i])

\* the three parts of the claim over the declared entries
DuplicateRouteErrorOver(entries) ==
    /\ \A c \in Calls :
        (Failed(c) /\ err[c].name = "MidwayDuplicateRouteError")
            => RejectsOneOf(err[c], entries)
    /\ (\E c \in Calls : pc[c] \in {"analyzed", "done"}) => ~DuplicateIn(entries)
    /\ (analyzeCount = 1 /\ \E c \in Calls : Failed(c))
            => (DuplicateIn(entries) \/ InvalidPrefixDeclared)

C5_DuplicateRouteError == DuplicateRouteErrorOver(DeclaredEntries)

C5_Witness ==
    \E c \in Calls :
        /\ Failed(c)
        /\ analyzeCount = 1
        /\ err[c] = MidwayDuplicateRouteError(<<"g", "e", "t", " ", "/", "x">>,
                                              <<"A", ".", "l">>, <<"H", ".", "h">>)
        /\ <<"/">> \in DOMAIN routes
        /\ \E i, j \in 1 .. Len(routes[<<"/">>]) :
            /\ routes[<<"/">>][i].url = routes[<<"/">>][j].url
            /\ routes[<<"/">>][i].requestMethod = get
            /\ routes[<<"/">>][j].requestMethod = post
        /\ <<"a">> \in DOMAIN routes
        /\ \E i \in 1 .. Len(routes[<<"/">>]), j \in 1 .. Len(routes[<<"a">>]) :
            SameRoute(routes[<<"/">>][i], routes[<<"a">>][j])

(***************************************************************************)
(* C6.  No group holds two entries with the same url whose non-empty       *)
(* request methods are equal up to letter case.                            *)
(***************************************************************************)
C6_MethodsCompareCaseInsensitively ==
    \A k \in DOMAIN routes :
        \A i, j \in 1 .. Len(routes[k]) :
            (i # j /\ routes[k][i].url = routes[k][j].url /\ routes[k][i].requestMethod # << >>)
                => toLowerCase(routes[k][i].requestMethod) # toLowerCase(routes[k][j].requestMethod)

(***************************************************************************)
(* C7.  Once the instance is ready, every prefix of routesPriority and     *)
(* every key of routes maps to a non-empty entry list.                     *)
(***************************************************************************)
C7_NoEmptyGroupInViews ==
    isReady =>
        /\ \A i \in 1 .. Len(routesPriority) :
            /\ routesPriority[i].prefix \in DOMAIN routes
            /\ Len(routes[routesPriority[i].prefix]) > 0
        /\ \A k \in DOMAIN routes : Len(routes[k]) > 0

(***************************************************************************)
(* C8.  The list getRoutePriorityList returns is ordered by descending     *)
(* prefix length, and in the list getFlattenRouterTable returns no entry   *)
(* of a group comes after an entry of a group whose prefix is a proper     *)
(* initial part of its own.                                                *)
(***************************************************************************)
ProperPrefix(short, long) ==
    Len(short) < Len(long) /\ SubSeq(long, 1, Len(short)) = short

C8_LongerPrefixFirst ==
    \A c \in Calls :
        /\ Done(c, "getRoutePriorityList") =>
            \A i, j \in 1 .. Len(ret[c].value) :
                i < j => Len(ret[c].value[i].prefix) >= Len(ret[c].value[j].prefix)
        /\ Done(c, "getFlattenRouterTable") =>
            \A i, j \in 1 .. Len(ret[c].value) :
                ProperPrefix(ret[c].value[i].prefix, ret[c].value[j].prefix) => j < i

(***************************************************************************)
(* C9.  In the list getRoutePriorityList returns, the root group '/' is    *)
(* the last element when it is present.                                    *)
(***************************************************************************)
C9_RootGroupLast ==
    \A c \in Calls :
        Done(c, "getRoutePriorityList") =>
            \A i \in 1 .. Len(ret[c].value) :
                ret[c].value[i].prefix = <<"/">> => i = Len(ret[c].value)

(***************************************************************************)
(* C10.  What getFlattenRouterTable returns is, at the moment it returns,  *)
(* the entry lists of routes laid end to end in the order of               *)
(* routesPriority: the j-th entry of the i-th group stands at the place    *)
(* that the lengths of the groups before it give, nothing else is in the   *)
(* list, and every key of routes is the prefix of exactly one element of   *)
(* routesPriority.                                                         *)
(***************************************************************************)
IsConcatenation(flat, r, rp) ==
    LET offset[i \in 1 .. Len(rp) + 1] ==
            IF i = 1 THEN 0 ELSE offset[i - 1] + Len(r[rp[i - 1].prefix])
    IN  /\ Len(flat) = offset[Len(rp) + 1]
        /\ \A i \in 1 .. Len(rp) :
            \A j \in 1 .. Len(r[rp[i].prefix]) :
                flat[offset[i] + j] = r[rp[i].prefix][j]
        /\ \A k \in DOMAIN r : Cardinality({i \in 1 .. Len(rp) : rp[i].prefix = k}) = 1

C10_FlattenIsConcatenation ==
    [][\A c \in Calls :
        (pc[c] # "done" /\ pc'[c] = "done" /\ op'[c] = "getFlattenRouterTable")
            => IsConcatenation(ret'[c].value, routes', routesPriority')]_vars

C10_Witness ==
    \E c \in Calls :
        /\ Done(c, "getFlattenRouterTable")
        /\ Len(routesPriority) >= 2
        /\ \A i \in 1 .. Len(routesPriority) : Len(routes[routesPriority[i].prefix]) >= 2
        /\ ret[c].value = flatten(routes, routesPriority)

(***************************************************************************)
(* Vocabulary of the properties of sortRouter.                             *)
(***************************************************************************)
\* the class of a pattern as it reads: 0 with a wildcard, 1 with the parameter
\* sigil and no wildcard, 2 fully literal
PatternCategory(url) ==
    IF includes(url, "*") THEN 0 ELSE IF includes(url, ":") THEN 1 ELSE 2

\* entry a stands before entry b in the list sortRouter returned
Before(a, b) ==
    \E i, j \in 1 .. Len(sortResult.value) :
        /\ i < j
        /\ sortResult.value[i].handlerName = a.handlerName
        /\ sortResult.value[j].handlerName = b.handlerName

(***************************************************************************)
(* C11.  In the list sortRouter returns no pattern stands before a pattern *)
(* of a higher class: literal patterns first, then the patterns with a     *)
(* parameter sigil anywhere in them and no wildcard, then the patterns     *)
(* with a wildcard.                                                        *)
(***************************************************************************)
C11_LiteralThenParamThenWildcard ==
    sortResult.called =>
        \A i, j \in 1 .. Len(sortResult.value) :
            i < j => PatternCategory(sortResult.value[i].url)
                        >= PatternCategory(sortResult.value[j].url)

(***************************************************************************)
(* C12.  Of two wildcard-suffixed patterns in the list sortRouter returns, *)
(* one whose path strictly extends the path of the other stands first; and *)
(* of two entries with the same category and the same weight, the one with *)
(* more path separators stands first.                                      *)
(***************************************************************************)
WildcardSuffixed(url) == Len(url) > 0 /\ url[Len(url)] = "*"

\* the path in front of the trailing wildcard
Stem(url) == SubSeq(url, 1, Max({i \in 0 .. Len(url) : i = 0 \/ url[i] # "*"}))

Separators(url) == Cardinality({i \in 1 .. Len(url) : url[i] = "/"})

DeeperFirst(x, y) ==
    /\ (/\ WildcardSuffixed(x.url)
        /\ WildcardSuffixed(y.url)
        /\ ProperPrefix(Stem(x.url), Stem(y.url))) => Before(y, x)
    /\ (/\ x.category = y.category
        /\ x.weight = y.weight
        /\ Separators(y.url) > Separators(x.url)) => Before(y, x)

C12_DeeperPathFirst ==
    sortResult.called =>
        \A i, j \in 1 .. Len(sortResult.value) :
            DeeperFirst(sortResult.value[i], sortResult.value[j])

\* the list /a/**, /a/b/**, /a/:i/* comes back as /a/b/**, /a/:i/*, /a/**
C12_Witness ==
    /\ sortResult.called
    /\ [i \in 1 .. Len(sortInput) |-> sortInput[i].url] =
            << <<"/", "a", "/", "*", "*">>,
               <<"/", "a", "/", "b", "/", "*", "*">>,
               <<"/", "a", "/", ":", "i", "/", "*">> >>
    /\ [i \in 1 .. Len(sortResult.value) |-> sortResult.value[i].url] =
            << <<"/", "a", "/", "b", "/", "*", "*">>,
               <<"/", "a", "/", ":", "i", "/", "*">>,
               <<"/", "a", "/", "*", "*">> >>

(***************************************************************************)
(* C13.  When the resolved prefix of a declared controller holds '*', every *)
(* call whose pass has run was rejected with the Invalid Prefix error and  *)
(* returned no view.                                                       *)
(***************************************************************************)
PassRan(c) == pc[c] \in {"analyzed", "done", "failed"}

C13_WildcardPrefixAborts ==
    InvalidPrefixDeclared =>
        \A c \in Calls :
            PassRan(c) => /\ Failed(c)
                          /\ err[c].name = "MidwayCommonError"
                          /\ ret[c] = NoReturn

(***************************************************************************)
(* C14.  In the list sortRouter returns the order of any two entries is    *)
(* decided by the five criteria in turn: higher category, higher weight,   *)
(* more path separators, longer normalized form, shorter pattern; entries  *)
(* equal in all five stand in the order of the argument.                   *)
(***************************************************************************)
\* the five criteria, each as a number of which the higher goes first
Criteria(x) ==
    <<x.category, x.weight, Separators(x.url), Len(x.pureRouter), 0 - Len(x.url)>>

\* x goes before y by the first criterion in which they differ
GoesFirst(x, y) ==
    \E k \in 1 .. 5 :
        /\ Criteria(x)[k] > Criteria(y)[k]
        /\ \A h \in 1 .. k - 1 : Criteria(x)[h] = Criteria(y)[h]

\* entry a stands before entry b in the argument of sortRouter
BeforeInArgument(a, b) ==
    \E i, j \in 1 .. Len(sortInput) :
        /\ i < j
        /\ sortInput[i].handlerName = a.handlerName
        /\ sortInput[j].handlerName = b.handlerName

OrderedByCriteria(x, y) ==
    /\ GoesFirst(x, y) => Before(x, y)
    /\ (Criteria(x) = Criteria(y) /\ BeforeInArgument(x, y)) => Before(x, y)

C14_OrderByFiveCriteria ==
    sortResult.called =>
        \A i, j \in 1 .. Len(sortResult.value) :
            OrderedByCriteria(sortResult.value[i], sortResult.value[j])

(***************************************************************************)
(* C15.  The comparator of sortRouter is a total preorder on the entries   *)
(* it is given: two entries compare with opposite signs in the two         *)
(* directions, `before` is transitive and so is `ties with`; and in the    *)
(* list returned every entry the comparator puts before another one stands *)
(* before it, whatever the order of the argument.                          *)
(***************************************************************************)
Sign(n) == IF n < 0 THEN -1 ELSE IF n > 0 THEN 1 ELSE 0

TotalPreorderOn(S) ==
    /\ \A a, b \in S : Sign(compareRouter(a, b)) = 0 - Sign(compareRouter(b, a))
    /\ \A a, b, c \in S :
        (compareRouter(a, b) < 0 /\ compareRouter(b, c) < 0) => compareRouter(a, c) < 0
    /\ \A a, b, c \in S :
        (compareRouter(a, b) = 0 /\ compareRouter(b, c) = 0) => compareRouter(a, c) = 0

C15_ComparatorIsTotalPreorder ==
    sortResult.called =>
        /\ TotalPreorderOn({sortResult.value[i] : i \in 1 .. Len(sortResult.value)})
        /\ \A i, j \in 1 .. Len(sortResult.value) :
            compareRouter(sortResult.value[i], sortResult.value[j]) < 0
                => Before(sortResult.value[i], sortResult.value[j])

(***************************************************************************)
(* C16.  Whatever a group holds, checkDuplicateAndPush accepts an entry    *)
(* with an empty method and appends it to the group; and an entry with a   *)
(* method that the guard rejects is rejected also when the entries with an *)
(* empty method are taken out of the group.                                *)
(***************************************************************************)
\* the entries that may be submitted: those of the function classes, triggers
\* without a path included, and those of the members of the controllers
SubmittedEntries ==
    {functionRouterInfo(FnT, FnT.triggers[i]) : i \in 1 .. Len(FnT.triggers)}
    \cup {functionRouterInfo(FnH, FnH.triggers[i]) : i \in 1 .. Len(FnH.triggers)}
    \cup UNION {{routerInfoOf(m, m.webRouterInfo[i], ignorePrefixOf(m), ignorePrefixOf(m)) :
                    i \in 1 .. Len(m.webRouterInfo)} : m \in ControllerPool}

Instance == [routes |-> routes, routesPriority |-> routesPriority, err |-> NoError]

\* what the guard left is group k with the entry appended
AppendedIn(after, k, e) ==
    after.err = NoError /\ after.routes[k] = Append(routes[k], e)

\* the entry is submitted to group k of the instance as it stands
Accepted(k, e) == AppendedIn(checkDuplicateAndPush(Instance, k, e), k, e)

WithMethod(list) == SelectSeq(list, LAMBDA item : item.requestMethod # << >>)

\* the entry is rejected by group k without its entries of empty method
RejectedByMethodEntries(k, d) ==
    checkDuplicateAndPush([Instance EXCEPT !.routes[k] = WithMethod(@)], k, d).err # NoError

\* group k holds an entry of empty method
HoldsEmptyMethod(k) == \E j \in 1 .. Len(routes[k]) : routes[k][j].requestMethod = << >>

EmptyMethodNeverConflicts(k, e) ==
    IF e.requestMethod = << >>
    THEN Accepted(k, e)
    ELSE (HoldsEmptyMethod(k) /\ checkDuplicateAndPush(Instance, k, e).err # NoError)
            => RejectedByMethodEntries(k, e)

C16_EmptyMethodNeverConflicts ==
    \A k \in DOMAIN routes :
        \A e \in SubmittedEntries : EmptyMethodNeverConflicts(k, e)

\* a completed call, with an entry of empty method in the root group in front
\* of an entry of the same url with a method
C16_Witness ==
    /\ \E c \in Calls : pc[c] = "done"
    /\ <<"/">> \in DOMAIN routes
    /\ \E i, j \in 1 .. Len(routes[<<"/">>]) :
        /\ i < j
        /\ routes[<<"/">>][i].requestMethod = << >>
        /\ routes[<<"/">>][i].url = <<"/", "x">>
        /\ routes[<<"/">>][j].url = <<"/", "x">>
        /\ routes[<<"/">>][j].requestMethod = get

(***************************************************************************)
(* C17.  A member of a declared controller is held by no group but the one *)
(* keyed by the controller's own prefix, when the member or the controller *)
(* ignores the global prefix, or else by the global prefix joined with the *)
(* controller's prefix; it is held there at most once, exactly once when a *)
(* pass has succeeded, and the prefix field of its entry is the key of the *)
(* group.                                                                  *)
(***************************************************************************)
OwnPrefix(module) == IF truthy(module.prefix) THEN module.prefix ELSE <<"/">>

\* the global prefix joined with the controller's prefix
Mount(module) == joinURLPath(options.globalPrefix, OwnPrefix(module))

HandlerOf(module, webRouter) == module.controllerId \o <<".">> \o webRouter.method

\* the places of group k that hold the entry of handler h
Places(k, h) == {i \in 1 .. Len(routes[k]) : routes[k][i].handlerName = h}

PassSucceeded == \E c \in Calls : pc[c] \in {"analyzed", "done"}

InOneGroup(g, h) ==
    /\ \A k \in DOMAIN routes :
        /\ k # g => Places(k, h) = {}
        /\ Cardinality(Places(k, h)) <= 1
        /\ \A i \in Places(k, h) : routes[k][i].prefix = k
    /\ PassSucceeded => (g \in DOMAIN routes /\ Cardinality(Places(g, h)) = 1)

\* each member of a controller, in the group of the controller's own prefix
\* or in the group of its mount
MembersInOneGroup(module, own, mount) ==
    \A i \in 1 .. Len(module.webRouterInfo) :
        InOneGroup(IF module.webRouterInfo[i].ignoreGlobalPrefix \/ module.ignoreGlobalPrefix
                   THEN own ELSE mount,
                   HandlerOf(module, module.webRouterInfo[i]))

C17_MemberInOneGroup ==
    \A n \in 1 .. Len(controllerModules) :
        MembersInOneGroup(controllerModules[n], OwnPrefix(controllerModules[n]),
                          Mount(controllerModules[n]))

\* under the global prefix /v, E.w is held by /v/a and E.l by /a
C17_Witness ==
    /\ \E c \in Calls : pc[c] = "done"
    /\ options.globalPrefix = <<"/", "v">>
    /\ <<"/", "v", "/", "a">> \in DOMAIN routes
    /\ <<"/", "a">> \in DOMAIN routes
    /\ Places(<<"/", "v", "/", "a">>, <<"E", ".", "w">>) # {}
    /\ Places(<<"/", "a">>, <<"E", ".", "l">>) # {}

(***************************************************************************)
(* C18.  Once a pass has succeeded, the controllerId and the middleware of *)
(* an element of routesPriority are those of the first declaration, in the *)
(* order of collection, that collects into the element's prefix: a         *)
(* controller whose resolved prefix it is, or whose own prefix it is while *)
(* one of its members ignores the global prefix, or a function class for   *)
(* the root prefix.                                                        *)
(***************************************************************************)
ResolvedMount(module) ==
    IF module.ignoreGlobalPrefix THEN OwnPrefix(module) ELSE Mount(module)

ControllerCollectsInto(module, k) ==
    \/ k = ResolvedMount(module)
    \/ /\ k = OwnPrefix(module)
       /\ \E i \in 1 .. Len(module.webRouterInfo) : module.webRouterInfo[i].ignoreGlobalPrefix

\* the declarations in the order analyze collects them, each with its owner,
\* its middleware and the prefixes it collects into
Declarations ==
    [n \in 1 .. Len(controllerModules) |->
        [controllerId |-> controllerModules[n].controllerId,
         middleware |-> controllerModules[n].middleware,
         groups |-> {k \in {ResolvedMount(controllerModules[n]), OwnPrefix(controllerModules[n])} :
                        ControllerCollectsInto(controllerModules[n], k)}]]
    \o (IF options.includeFunctionRouter
        THEN [n \in 1 .. Len(fnModules) |->
                [controllerId |-> fnModules[n].controllerId,
                 middleware |-> << >>,
                 groups |-> {<<"/">>}]]
        ELSE << >>)

OwnedByFirstCollector(p, decls) ==
    \A n \in 1 .. Len(decls) :
        (/\ p.prefix \in decls[n].groups
         /\ \A h \in 1 .. n - 1 : p.prefix \notin decls[h].groups)
            => (p.controllerId = decls[n].controllerId /\ p.middleware = decls[n].middleware)

C18_GroupOwnerIsFirstCollector ==
    PassSucceeded =>
        \A i \in 1 .. Len(routesPriority) :
            OwnedByFirstCollector(routesPriority[i], Declarations)

(***************************************************************************)
(* C19.  Over declarations without a duplicate and without a wildcard      *)
(* prefix no call is rejected, in any interleaving of the calls, and the   *)
(* instance a completed call has read holds every declared entry once.     *)
(***************************************************************************)
\* the number of entries of handler h the groups hold
Held(h) == Cardinality(UNION {{<<k, i>> : i \in Places(k, h)} : k \in DOMAIN routes})

EachHeldOnce(entries) == \A i \in 1 .. Len(entries) : Held(entries[i].handlerName) = 1

EveryCallSucceeds(entries) ==
    (~DuplicateIn(entries) /\ ~InvalidPrefixDeclared) =>
        /\ \A c \in Calls : ~Failed(c)
        /\ (\E c \in Calls : pc[c] = "done") => EachHeldOnce(entries)

C19_EveryInterleavingSucceeds == EveryCallSucceeds(DeclaredEntries)

(***************************************************************************)
(* C20.  Once a pass has succeeded the views agree: the prefixes of        *)
(* routesPriority are the keys of routes, no prefix occurs twice in        *)
(* routesPriority, and the flattened list is as long as the entry lists of *)
(* routes together.                                                        *)
(***************************************************************************)
PriorityPrefixes == {routesPriority[i].prefix : i \in 1 .. Len(routesPriority)}

\* the number of entries the groups of routes hold together
EntriesHeld ==
    Cardinality(UNION {{<<k, i>> : i \in 1 .. Len(routes[k])} : k \in DOMAIN routes})

C20_ViewsAgree ==
    PassSucceeded =>
        /\ PriorityPrefixes = DOMAIN routes
        /\ Cardinality(PriorityPrefixes) = Len(routesPriority)
        /\ Len(flatten(routes, routesPriority)) = EntriesHeld

\* a completed call over two groups or more, after a group that a declared
\* controller created was pruned
C20_Witness ==
    /\ \E c \in Calls : pc[c] = "done"
    /\ Len(routesPriority) >= 2
    /\ \E n \in 1 .. Len(controllerModules) : OwnPrefix(controllerModules[n]) \notin DOMAIN routes

====
